---- MODULE Spec2Model ----
(***************************************************************************)
(* FVoreealRegion (Source/Voreeal/Classes/VoreealRegion.h): an axis-aligned *)
(* box stored as an int32 origin (X, Y, Z) and an int32 extent (Width,      *)
(* Height, Depth), its constructors, its in-place mutators and its          *)
(* classification functions.                                                *)
(*                                                                          *)
(* Arithmetic.  The six fields are int32.  Signed overflow is undefined in  *)
(* C++; every build of this code stores the two's-complement result in the  *)
(* fields (Add32, Sub32, Neg32), but an optimising build, which may assume  *)
(* that no overflow happened, returns from GetCenter() values that no       *)
(* formula on the fields gives: after Grow(2^30, ...) on an empty box it     *)
(* halves 2^31 and not the stored -2^31, and for the origin MaxInt32 it can  *)
(* drop the half extent altogether.  The model records that a sum on the    *)
(* object has overflowed (ub), and from then on, or where its own sum       *)
(* X + Width / 2 overflows, GetCenter() may return any vector at all        *)
(* (Undefined).  FVector components are single-                             *)
(* precision floats.  Every float this model meets has an integer value v   *)
(* with |v| <= 2^31, and is written as that integer; the one value that     *)
(* does not fit, 2^31, is written as MaxInt32 (2^31 - 1 is not a float, so  *)
(* the encoding is injective and keeps the order).  The conversion of a     *)
(* float of 2^31 or more to int32 is undefined as well, and there the       *)
(* builds differ: the model leaves the choice open (ToInt32).               *)
(***************************************************************************)
EXTENDS Integers, Sequences, FiniteSets, TLC

VARIABLES
    region,       \* the object: [X, Y, Z, Width, Height, Depth]
    op,           \* the constructor, assignment or mutator that last wrote region
    args,         \* its arguments, a tuple of numbers
    ub,           \* an int32 sum made on the object has overflowed: undefined behaviour
    before,       \* region before that call (for a constructor: the result)
    ubBefore,     \* ub before that call
    prevGrow,     \* <<n, r>> when the call before the last was GrowUnified(n) on r, else <<>>
    ncalls,       \* the number of mutating calls made on the object
    query,        \* the query last applied to region since it was written
    qargs,        \* the query's arguments: a region's six fields, or a point
    containment,  \* EContainmentType returned by Contains(region, region)
    flag,         \* bool returned by Contains(region, point) or Intersect
    pvOut         \* the PolyVox::Region produced by operator PolyVox::Region

vars == <<region, ub, op, args, before, ubBefore, prevGrow, ncalls,
          query, qargs, containment, flag, pvOut>>

(***************************************************************************)
(* Bounds of the model.                                                     *)
(***************************************************************************)
MaxExt == 1
MaxCalls == 2

(***************************************************************************)
(* int32                                                                    *)
(***************************************************************************)
MaxInt32 == (2^30 - 1) + 2^30
MinInt32 == (-MaxInt32) - 1
TwoTo24 == 2^24
TwoTo30 == 2^30

Add32(a, b) ==
    IF b >= 0
    THEN IF a > MaxInt32 - b
         THEN ((a - MaxInt32) - 1) + ((b - MaxInt32) - 1)
         ELSE a + b
    ELSE IF a < MinInt32 - b
         THEN ((a + MaxInt32) + 1) + ((b + MaxInt32) + 1)
         ELSE a + b

Neg32(a) == IF a = MinInt32 THEN MinInt32 ELSE -a

Sub32(a, b) == Add32(a, Neg32(b))

\* a + b is an int32: the sum does not overflow
Fits(a, b) == IF b >= 0 THEN a <= MaxInt32 - b ELSE a >= MinInt32 - b

\* a - b is an int32: the difference does not overflow
SubFits(a, b) == IF b = MinInt32 THEN a < 0 ELSE Fits(a, -b)

\* a * 2 as it is stored in an int32; it overflows unless Fits(a, a)
Twice32(a) == Add32(a, a)

\* a / 2 in C++: the quotient truncated toward zero
Half32(a) == IF a < 0 /\ a % 2 = 1 THEN (a \div 2) + 1 ELSE a \div 2

(***************************************************************************)
(* float                                                                    *)
(***************************************************************************)
RECURSIVE Ulp(_)
\* the spacing of the floats around the magnitude a: a power of two such
\* that a \div Ulp(a) has at most 24 bits
Ulp(a) == IF a < TwoTo24 THEN 1 ELSE 2 * Ulp(a \div 2)

\* the magnitude a (0 <= a <= MaxInt32) rounded to the nearest float, ties to
\* the even significand; 2^31 is written MaxInt32
RoundMag(a) ==
    LET u == Ulp(a)
        q == a \div u
        r == a % u
        m == IF 2 * r > u \/ (2 * r = u /\ q % 2 = 1) THEN q + 1 ELSE q
    IN  IF m = TwoTo24 /\ u = 128 THEN MaxInt32 ELSE m * u

\* the conversion int32 -> float
ToFloat(i) ==
    IF i = MinInt32 THEN MinInt32
    ELSE IF i >= 0 THEN RoundMag(i)
    ELSE LET m == RoundMag(-i) IN IF m = MaxInt32 THEN MinInt32 ELSE -m

\* f - 1 in float arithmetic (f - 1.0f, rounded)
FloatMinusOne(f) ==
    IF f = MinInt32 \/ f = MaxInt32 THEN f ELSE ToFloat(f - 1)

\* -f
FloatNeg(f) ==
    IF f = MaxInt32 THEN MinInt32 ELSE IF f = MinInt32 THEN MaxInt32 ELSE -f

\* a - b in float arithmetic: the exact difference, rounded.  A result of
\* 2^31 or more is written MaxInt32 and one of -2^31 or less MinInt32: no
\* float beyond them is an int32, and ToInt32 is all that is done with it.
FloatSub(a, b) ==
    IF a = MaxInt32
    THEN IF b = MaxInt32 THEN 0
         ELSE IF b > 0 THEN ToFloat((MaxInt32 - b) + 1)
         ELSE MaxInt32
    ELSE IF b = MaxInt32
    THEN IF a > 0 THEN FloatNeg(ToFloat((MaxInt32 - a) + 1)) ELSE MinInt32
    ELSE IF b = MinInt32
    THEN IF a < 0 THEN ToFloat((a + MaxInt32) + 1) ELSE MaxInt32
    ELSE IF b <= 0
    THEN IF a > MaxInt32 + b THEN MaxInt32 ELSE ToFloat(a - b)
    ELSE IF a < MinInt32 + b THEN MinInt32 ELSE ToFloat(a - b)

\* a - b in float arithmetic is below -2^31, for floats a and b within
\* +-2^31: the exact difference is below -2^31 - 128, where the floats
\* round away from -2^31
FloatSubBelow(a, b) ==
    IF a = MaxInt32 \/ b = MinInt32 THEN FALSE
    ELSE IF b = MaxInt32 THEN a < -128
    ELSE b > 128 /\ a < MinInt32 + (b - 128)

\* the conversion float -> int32, as the set of its outcomes.  An integer-
\* valued float within int32 converts to itself.  A float of 2^31 or more is
\* out of range and the conversion undefined: the compiled conversion gives
\* MinInt32, the compiler's own folding of a constant gives MaxInt32.  A
\* float below -2^31 gives MinInt32 either way, as -2^31 itself does.
ToInt32(f) == IF f = MaxInt32 THEN { MinInt32, MaxInt32 } ELSE { f }

(***************************************************************************)
(* FVoreealRegion                                                           *)
(***************************************************************************)
Region(x, y, z, w, h, d) ==
    [X |-> x, Y |-> y, Z |-> z, Width |-> w, Height |-> h, Depth |-> d]

DefaultRegion == Region(0, 0, 0, 0, 0, 0)

\* FVoreealRegion(FVector Lower, FVector Upper): the regions it can construct,
\* one unless a conversion is out of range
RegionFromCorners(Lower, Upper) ==
    { Region(x, y, z, w, h, d) :
        x \in ToInt32(Lower[1]), y \in ToInt32(Lower[2]), z \in ToInt32(Lower[3]),
        w \in ToInt32(FloatSub(Lower[1], Upper[1])),
        h \in ToInt32(FloatSub(Lower[2], Upper[2])),
        d \in ToInt32(FloatSub(Lower[3], Upper[3])) }

\* the conversions of that constructor are undefined: a corner or a
\* difference is no int32
RegionFromCornersOverflows(Lower, Upper) ==
    \E i \in 1 .. 3 :
        \/ Lower[i] = MaxInt32
        \/ FloatSub(Lower[i], Upper[i]) = MaxInt32
        \/ FloatSubBelow(Lower[i], Upper[i])

\* FVoreealRegion(FIntVector Lower, FIntVector Upper)
RegionFromIntCorners(Lower, Upper) ==
    Region(Lower[1], Lower[2], Lower[3],
           Sub32(Lower[1], Upper[1]),
           Sub32(Lower[2], Upper[2]),
           Sub32(Lower[3], Upper[3]))

\* Lower.X - Upper.X overflows in that constructor, on some axis
RegionFromIntCornersOverflows(Lower, Upper) ==
    \E i \in 1 .. 3 : ~SubFits(Lower[i], Upper[i])

ZeroVector == <<0, 0, 0>>

\* explicit FVoreealRegion(FVector Size)
RegionFromSize(Size) == RegionFromCorners(ZeroVector, Size)

GetLowerInt(r) == <<r.X, r.Y, r.Z>>

GetUpperInt(r) ==
    <<Add32(r.X, r.Width), Add32(r.Y, r.Height), Add32(r.Z, r.Depth)>>

GetLower(r) == <<ToFloat(r.X), ToFloat(r.Y), ToFloat(r.Z)>>

GetUpper(r) ==
    <<ToFloat(Add32(r.X, r.Width)), ToFloat(Add32(r.Y, r.Height)),
      ToFloat(Add32(r.Z, r.Depth))>>

Min(r) == <<ToFloat(r.X), ToFloat(r.Y), ToFloat(r.Z)>>

Max(r) ==
    <<ToFloat(Add32(r.X, r.Width)), ToFloat(Add32(r.Y, r.Height)),
      ToFloat(Add32(r.Z, r.Depth))>>

Size(r) == <<ToFloat(r.Width), ToFloat(r.Height), ToFloat(r.Depth)>>

\* any FVector: what a call whose behaviour is undefined returns
Undefined == <<>>

\* X + Width / 2 overflows in GetCenter(), on some axis
GetCenterOverflows(r) ==
    \/ ~Fits(r.X, Half32(r.Width))
    \/ ~Fits(r.Y, Half32(r.Height))
    \/ ~Fits(r.Z, Half32(r.Depth))

\* FVector GetCenter() const, as the set of its outcomes for the fields r of
\* an object on which a sum has overflowed (undefined) or has not: the
\* center computed in int32, and, where the behaviour is undefined, any
\* vector as well
GetCenter(r, undefined) ==
    LET Center == <<ToFloat(Add32(r.X, Half32(r.Width))),
                    ToFloat(Add32(r.Y, Half32(r.Height))),
                    ToFloat(Add32(r.Z, Half32(r.Depth)))>>
    IN  IF undefined \/ GetCenterOverflows(r)
        THEN { Center, Undefined }
        ELSE { Center }

\* Grow that adds the amount to the extent once, not twice
GrowOneSided(r, pWidth, pHeight, pDepth) ==
    Region(Sub32(r.X, pWidth), Sub32(r.Y, pHeight), Sub32(r.Z, pDepth),
           Add32(r.Width, pWidth),
           Add32(r.Height, pHeight),
           Add32(r.Depth, pDepth))

Grow(r, pWidth, pHeight, pDepth) ==
    Region(Sub32(r.X, pWidth), Sub32(r.Y, pHeight), Sub32(r.Z, pDepth),
           Add32(r.Width, Twice32(pWidth)),
           Add32(r.Height, Twice32(pHeight)),
           Add32(r.Depth, Twice32(pDepth)))

\* GrowUnified that never lets an extent go below zero
GrowUnifiedClamped(r, Amount) ==
    LET clamp(v) == IF v < 0 THEN 0 ELSE v
    IN  Region(Sub32(r.X, Amount), Sub32(r.Y, Amount), Sub32(r.Z, Amount),
               clamp(Add32(r.Width, Twice32(Amount))),
               clamp(Add32(r.Height, Twice32(Amount))),
               clamp(Add32(r.Depth, Twice32(Amount))))

GrowUnified(r, Amount) ==
    Region(Sub32(r.X, Amount), Sub32(r.Y, Amount), Sub32(r.Z, Amount),
           Add32(r.Width, Twice32(Amount)),
           Add32(r.Height, Twice32(Amount)),
           Add32(r.Depth, Twice32(Amount)))

\* X -= pWidth, pWidth * 2 or Width += pWidth * 2 overflows in Grow, on some
\* axis
GrowOverflows(r, pWidth, pHeight, pDepth) ==
    \/ ~SubFits(r.X, pWidth) \/ ~Fits(pWidth, pWidth)
    \/ ~Fits(r.Width, Twice32(pWidth))
    \/ ~SubFits(r.Y, pHeight) \/ ~Fits(pHeight, pHeight)
    \/ ~Fits(r.Height, Twice32(pHeight))
    \/ ~SubFits(r.Z, pDepth) \/ ~Fits(pDepth, pDepth)
    \/ ~Fits(r.Depth, Twice32(pDepth))

\* the same in GrowUnified
GrowUnifiedOverflows(r, Amount) == GrowOverflows(r, Amount, Amount, Amount)

\* ShiftUpperCorner that moves the origin and keeps the extent
ShiftUpperCornerMovesBox(r, pX, pY, pZ) ==
    Region(Add32(r.X, pX), Add32(r.Y, pY), Add32(r.Z, pZ),
           r.Width, r.Height, r.Depth)

ShiftUpperCorner(r, pX, pY, pZ) ==
    Region(Add32(r.X, pX), Add32(r.Y, pY), Add32(r.Z, pZ),
           Sub32(r.Width, pX), Sub32(r.Height, pY), Sub32(r.Depth, pZ))

ShiftLowerCorner(r, pX, pY, pZ) ==
    Region(r.X, r.Y, r.Z,
           Add32(r.Width, pX), Add32(r.Height, pY), Add32(r.Depth, pZ))

\* X += pX or Width -= pX overflows in ShiftUpperCorner, on some axis
ShiftUpperCornerOverflows(r, pX, pY, pZ) ==
    \/ ~Fits(r.X, pX) \/ ~SubFits(r.Width, pX)
    \/ ~Fits(r.Y, pY) \/ ~SubFits(r.Height, pY)
    \/ ~Fits(r.Z, pZ) \/ ~SubFits(r.Depth, pZ)

\* Width += pX overflows in ShiftLowerCorner, on some axis
ShiftLowerCornerOverflows(r, pX, pY, pZ) ==
    ~Fits(r.Width, pX) \/ ~Fits(r.Height, pY) \/ ~Fits(r.Depth, pZ)

\* Contains whose containment test is strict: a box does not contain itself
ContainsStrictInside(Region1, Region2) ==
    LET Lower1 == GetLower(Region1)
        Upper1 == GetUpper(Region1)
        Lower2 == GetLower(Region2)
        Upper2 == GetUpper(Region2)
    IN  IF \/ Upper2[1] < Lower1[1] \/ Lower2[1] > Upper1[1]
           \/ Upper2[2] < Lower1[2] \/ Lower2[2] > Upper1[2]
           \/ Upper2[3] < Lower1[3] \/ Lower2[3] > Upper1[3]
        THEN "Disjoint"
        ELSE IF /\ Lower2[1] > Lower1[1] /\ Upper2[1] < Upper1[1]
                /\ Lower2[2] > Lower1[2] /\ Upper2[2] < Upper1[2]
                /\ Lower2[3] > Lower1[3] /\ Upper2[3] < Upper1[3]
             THEN "Contains"
             ELSE "Intersects"

\* Contains whose Disjoint test excludes the upper face: touching is Disjoint
ContainsExclusiveFaces(Region1, Region2) ==
    LET Lower1 == GetLower(Region1)
        Upper1 == GetUpper(Region1)
        Lower2 == GetLower(Region2)
        Upper2 == GetUpper(Region2)
    IN  IF \/ Upper2[1] <= Lower1[1] \/ Lower2[1] >= Upper1[1]
           \/ Upper2[2] <= Lower1[2] \/ Lower2[2] >= Upper1[2]
           \/ Upper2[3] <= Lower1[3] \/ Lower2[3] >= Upper1[3]
        THEN "Disjoint"
        ELSE IF /\ Lower2[1] >= Lower1[1] /\ Upper2[1] <= Upper1[1]
                /\ Lower2[2] >= Lower1[2] /\ Upper2[2] <= Upper1[2]
                /\ Lower2[3] >= Lower1[3] /\ Upper2[3] <= Upper1[3]
             THEN "Contains"
             ELSE "Intersects"

\* Contains whose containment test forgets the Z axis
ContainsIgnoresDepth(Region1, Region2) ==
    LET Lower1 == GetLower(Region1)
        Upper1 == GetUpper(Region1)
        Lower2 == GetLower(Region2)
        Upper2 == GetUpper(Region2)
    IN  IF \/ Upper2[1] < Lower1[1] \/ Lower2[1] > Upper1[1]
           \/ Upper2[2] < Lower1[2] \/ Lower2[2] > Upper1[2]
           \/ Upper2[3] < Lower1[3] \/ Lower2[3] > Upper1[3]
        THEN "Disjoint"
        ELSE IF /\ Lower2[1] >= Lower1[1] /\ Upper2[1] <= Upper1[1]
                /\ Lower2[2] >= Lower1[2] /\ Upper2[2] <= Upper1[2]
             THEN "Contains"
             ELSE "Intersects"

\* Contains whose Disjoint test looks only below Region1, not above it
ContainsOneSidedDisjoint(Region1, Region2) ==
    LET Lower1 == GetLower(Region1)
        Upper1 == GetUpper(Region1)
        Lower2 == GetLower(Region2)
        Upper2 == GetUpper(Region2)
    IN  IF \/ Upper2[1] < Lower1[1]
           \/ Upper2[2] < Lower1[2]
           \/ Upper2[3] < Lower1[3]
        THEN "Disjoint"
        ELSE IF /\ Lower2[1] >= Lower1[1] /\ Upper2[1] <= Upper1[1]
                /\ Lower2[2] >= Lower1[2] /\ Upper2[2] <= Upper1[2]
                /\ Lower2[3] >= Lower1[3] /\ Upper2[3] <= Upper1[3]
             THEN "Contains"
             ELSE "Intersects"

\* EContainmentType Contains(const FVoreealRegion&, const FVoreealRegion&)
Contains(Region1, Region2) ==
    LET Lower1 == GetLower(Region1)
        Upper1 == GetUpper(Region1)
        Lower2 == GetLower(Region2)
        Upper2 == GetUpper(Region2)
    IN  IF \/ Upper2[1] < Lower1[1] \/ Lower2[1] > Upper1[1]
           \/ Upper2[2] < Lower1[2] \/ Lower2[2] > Upper1[2]
           \/ Upper2[3] < Lower1[3] \/ Lower2[3] > Upper1[3]
        THEN "Disjoint"
        ELSE IF /\ Lower2[1] >= Lower1[1] /\ Upper2[1] <= Upper1[1]
                /\ Lower2[2] >= Lower1[2] /\ Upper2[2] <= Upper1[2]
                /\ Lower2[3] >= Lower1[3] /\ Upper2[3] <= Upper1[3]
             THEN "Contains"
             ELSE "Intersects"

\* Contains(point) whose upper bound is inclusive
ContainsPointInclusiveUpper(Region1, Vector) ==
    LET Lower == GetLower(Region1)
        Upper == GetUpper(Region1)
    IN  IF \/ Vector[1] < Lower[1] \/ Vector[1] > Upper[1]
           \/ Vector[2] < Lower[2] \/ Vector[2] > Upper[2]
           \/ Vector[3] < Lower[3] \/ Vector[3] > Upper[3]
        THEN FALSE
        ELSE TRUE

\* bool Contains(const FVoreealRegion&, const FVector&)
ContainsPoint(Region1, Vector) ==
    LET Lower == GetLower(Region1)
        Upper == GetUpper(Region1)
    IN  IF \/ Vector[1] < Lower[1] \/ Vector[1] > FloatMinusOne(Upper[1])
           \/ Vector[2] < Lower[2] \/ Vector[2] > FloatMinusOne(Upper[2])
           \/ Vector[3] < Lower[3] \/ Vector[3] > FloatMinusOne(Upper[3])
        THEN FALSE
        ELSE TRUE

Intersect(Region1, Region2) == Contains(Region1, Region2) = "Intersects"

(***************************************************************************)
(* PolyVox::Region, the voxel library's box: an inclusive pair of corners,  *)
(* written <<lowerX, lowerY, lowerZ, upperX, upperY, upperZ>>.  Its size in *)
(* voxels counts both corners.                                              *)
(***************************************************************************)
PolyVoxRegion(lx, ly, lz, ux, uy, uz) == <<lx, ly, lz, ux, uy, uz>>

getLowerX(pv) == pv[1]
getLowerY(pv) == pv[2]
getLowerZ(pv) == pv[3]

getWidthInVoxels(pv) == Add32(Sub32(pv[4], pv[1]), 1)
getHeightInVoxels(pv) == Add32(Sub32(pv[5], pv[2]), 1)
getDepthInVoxels(pv) == Add32(Sub32(pv[6], pv[3]), 1)

\* FVoreealRegion& operator=(const PolyVox::Region& Other), which the
\* constructor FVoreealRegion(const PolyVox::Region&) calls
AssignPolyVox(Other) ==
    LET width == getWidthInVoxels(Other)
        height == getHeightInVoxels(Other)
        depth == getDepthInVoxels(Other)
    IN  Region(getLowerX(Other), getLowerY(Other), getLowerZ(Other),
               width, height, depth)

\* upper - lower + 1 overflows in that assignment, on some axis
AssignPolyVoxOverflows(Other) ==
    \E i \in 1 .. 3 :
        \/ ~SubFits(Other[i + 3], Other[i])
        \/ ~Fits(Sub32(Other[i + 3], Other[i]), 1)

\* X + Width overflows in that conversion, on some axis
ToPolyVoxOverflows(r) ==
    ~Fits(r.X, r.Width) \/ ~Fits(r.Y, r.Height) \/ ~Fits(r.Z, r.Depth)

\* explicit operator PolyVox::Region() const
ToPolyVox(r) ==
    PolyVoxRegion(r.X, r.Y, r.Z,
                  Add32(r.X, r.Width), Add32(r.Y, r.Height), Add32(r.Z, r.Depth))

(***************************************************************************)
(* Inputs.                                                                  *)
(***************************************************************************)
Fields(r) == <<r.X, r.Y, r.Z, r.Width, r.Height, r.Depth>>

OfFields(t) == Region(t[1], t[2], t[3], t[4], t[5], t[6])

\* origins and extents given to the constructors of an object that is then
\* mutated: small values of both signs and parities, and values at which
\* int32 arithmetic wraps and floats round
OriginVecs ==
    { <<0, 0, 0>>, <<2, 3, 4>>, <<-1, 1, -2>>,
      <<MaxInt32, MinInt32, TwoTo30>>, <<TwoTo24 + 1, -TwoTo30, MaxInt32 - 1>> }

ExtentVecs ==
    { <<0, 0, 0>>, <<5, 6, 7>>, <<1, 2, 3>>, <<-1, -2, -3>>,
      <<MaxInt32, MinInt32, 1>>, <<TwoTo30, -1, MinInt32 + 1>> }

\* arguments of Grow, ShiftUpperCorner and ShiftLowerCorner
DeltaVecs ==
    { <<0, 0, 0>>, <<1, 2, 3>>, <<-1, -2, 1>>, <<2, -1, -3>>,
      <<MaxInt32, MinInt32, TwoTo30>>, <<TwoTo30, 1, MinInt32 + 1>> }

\* arguments of GrowUnified
Amounts ==
    { -2, -1, 0, 1, 2, TwoTo30, -TwoTo30, MaxInt32, -MaxInt32, MinInt32 }

\* FVector and FIntVector arguments of the constructors
CornerVecs == { <<0, 0, 0>>, <<1, 2, 3>>, <<-1, 0, 2>>, <<4, 4, 4>> }

\* FVector sizes: those, and one with components that are not an int32, or
\* whose negation is not
SizeVecs == CornerVecs \cup { <<MaxInt32, MinInt32, TwoTo24>> }

\* FVector corners <<Lower, Upper>>: those, and floats whose difference, or
\* which themselves, are not an int32
FloatCornerPairs ==
    (CornerVecs \X CornerVecs) \cup
    { << <<TwoTo30, 0, 0>>, <<-(TwoTo30 - 64), 0, 0>> >>,
      << <<-(TwoTo30 - 64), 0, 0>>, <<TwoTo30, 0, 0>> >>,
      << <<MaxInt32, MinInt32, TwoTo24>>, <<0, 0, 0>> >> }

\* FIntVector corners <<Lower, Upper>>: those, and one whose differences wrap
IntCornerPairs ==
    (CornerVecs \X CornerVecs) \cup
    { << <<MaxInt32, MinInt32, TwoTo30>>, <<-1, 1, -TwoTo30>> >> }

\* the six int32 that a loading archive holds
ArchiveStreams ==
    { <<7, 7, 7, 100, 200, 300>>, <<MaxInt32, MinInt32, 0, -1, TwoTo30, 1>> }

\* well-formed PolyVox regions: upper >= lower on every axis
PolyVoxRegions ==
    { PolyVoxRegion(l[1], l[2], l[3], l[1] + e[1], l[2] + e[2], l[3] + e[3]) :
        l \in { <<0, 0, 0>>, <<-2, 1, 3>> },
        e \in { <<0, 0, 0>>, <<1, 2, 3>>, <<0, 4, 1>> } }

\* the boxes and points that are classified: every combination of a few
\* coordinates and of extents of both signs
Coords == 0 .. 1
Exts == (-1) .. MaxExt
SmallRegions ==
    { Region(x, y, z, w, h, d) :
        x \in Coords, y \in Coords, z \in Coords,
        w \in Exts, h \in Exts, d \in Exts }
PointCoords == (-1) .. (MaxExt + 1)
Points == { <<x, y, z>> : x \in PointCoords, y \in PointCoords, z \in PointCoords }

\* and boxes and points at which origin + extent leaves int32 or the floats
\* stop being exact
EdgeRegions ==
    { Region(MaxInt32, 0, 0, 1, 1, 1),
      Region(0, MinInt32, 0, 1, 1, 1),
      Region(0, 0, 0, TwoTo24, 1, 1),
      Region(TwoTo24, 0, 0, 1, 1, 1),
      Region(0, 0, 0, TwoTo24 + 4, 1, 1),
      Region(0, 0, 0, TwoTo24 - 2, 1, 1),
      Region(TwoTo24 - 2, 0, 0, 1, 1, 1),
      Region(0, 0, -(TwoTo24 + 3), 1, 1, 3) }

EdgePoints ==
    { <<TwoTo24 + 4, 0, 0>>, <<TwoTo24, 0, 0>>, <<TwoTo24 - 2, 0, 0>>,
      <<TwoTo24 - 3, 0, 0>>, <<0, 0, -(TwoTo24 + 4)>>, <<0, 0, -TwoTo24>> }

ClassifiedRegions == SmallRegions \cup EdgeRegions
ClassifiedPoints == Points \cup EdgePoints

NoRegion == <<>>
NoArgs == <<>>

(***************************************************************************)
(* The object's life: construction, then assignments and mutators, with    *)
(* conversions to PolyVox::Region in between.                              *)
(***************************************************************************)
NoQuery ==
    /\ query = "None" /\ qargs = NoArgs
    /\ containment = "None" /\ flag = FALSE /\ pvOut = NoRegion

\* a constructor call name(a) that makes the fields r; u: a sum or a
\* conversion in it overflowed
Constructed(name, a, r, u) ==
    /\ region = r /\ op = name /\ args = a /\ before = r
    /\ ub = u /\ ubBefore = u
    /\ prevGrow = <<>> /\ ncalls = 0
    /\ NoQuery

Init ==
    \/ \E o \in OriginVecs, e \in ExtentVecs :
         Constructed("FVoreealRegion(int32 x6)", o \o e,
                     Region(o[1], o[2], o[3], e[1], e[2], e[3]), FALSE)
    \/ Constructed("FVoreealRegion()", NoArgs, DefaultRegion, FALSE)
    \/ \E s \in SizeVecs :
         \E r \in RegionFromSize(s) :
             Constructed("FVoreealRegion(FVector Size)", s, r,
                         RegionFromCornersOverflows(ZeroVector, s))
    \/ \E c \in FloatCornerPairs :
         \E r \in RegionFromCorners(c[1], c[2]) :
             Constructed("FVoreealRegion(FVector, FVector)", c[1] \o c[2], r,
                         RegionFromCornersOverflows(c[1], c[2]))
    \/ \E c \in IntCornerPairs :
         Constructed("FVoreealRegion(FIntVector, FIntVector)", c[1] \o c[2],
                     RegionFromIntCorners(c[1], c[2]),
                     RegionFromIntCornersOverflows(c[1], c[2]))
    \/ \E pv \in PolyVoxRegions :
         Constructed("FVoreealRegion(PolyVox::Region)", pv, AssignPolyVox(pv),
                     AssignPolyVoxOverflows(pv))

\* a call that writes the object: name(a) turns region into r; u: a sum in
\* it overflowed
Write(name, a, r, u) ==
    /\ ncalls < MaxCalls
    /\ region' = r
    /\ ub' = (ub \/ u)
    /\ ubBefore' = ub
    /\ op' = name
    /\ args' = a
    /\ before' = region
    /\ prevGrow' = IF op = "GrowUnified" THEN <<args[1], before>> ELSE <<>>
    /\ ncalls' = ncalls + 1
    /\ query' = "None" /\ qargs' = NoArgs
    /\ containment' = "None" /\ flag' = FALSE /\ pvOut' = NoRegion

DoAssignPolyVox ==
    \E pv \in PolyVoxRegions : 
        Write("operator=", pv, AssignPolyVox(pv), AssignPolyVoxOverflows(pv))

DoGrow ==
    \E d \in DeltaVecs :
        Write("Grow", d, Grow(region, d[1], d[2], d[3]),
              GrowOverflows(region, d[1], d[2], d[3]))

DoGrowUnified ==
    \E n \in Amounts :
        Write("GrowUnified", <<n>>, GrowUnified(region, n),
              GrowUnifiedOverflows(region, n))

DoShiftUpperCorner ==
    \E d \in DeltaVecs :
        Write("ShiftUpperCorner", d, ShiftUpperCorner(region, d[1], d[2], d[3]),
              ShiftUpperCornerOverflows(region, d[1], d[2], d[3]))

DoShiftLowerCorner ==
    \E d \in DeltaVecs :
        Write("ShiftLowerCorner", d, ShiftLowerCorner(region, d[1], d[2], d[3]),
              ShiftLowerCornerOverflows(region, d[1], d[2], d[3]))

\* FArchive& operator<<(FArchive& Ar, FVoreealRegion& Region): Ar << field,
\* for the six fields in order, reads the field from a loading archive and
\* writes it to a saving one
Serialize(Region1, loading, stream) ==
    IF loading THEN OfFields(stream) ELSE Region1

DoSerialize ==
    \/ \E stream \in ArchiveStreams :
         Write("operator<< (loading)", stream, Serialize(region, TRUE, stream),
               FALSE)
    \/ Write("operator<< (saving)", Fields(region),
             Serialize(region, FALSE, Fields(region)), FALSE)

DoToPolyVox ==
    /\ query' = "operator PolyVox::Region"
    /\ qargs' = NoArgs
    /\ pvOut' = ToPolyVox(region)
    /\ ub' = (ub \/ ToPolyVoxOverflows(region))
    /\ UNCHANGED <<region, op, args, before, ubBefore, prevGrow, ncalls,
                   containment, flag>>

Next ==
    \/ DoAssignPolyVox
    \/ DoGrow
    \/ DoGrowUnified
    \/ DoShiftUpperCorner
    \/ DoShiftLowerCorner
    \/ DoSerialize
    \/ DoToPolyVox

Spec == Init /\ [][Next]_vars

(***************************************************************************)
(* Classification: a box built from six scalars is compared with another   *)
(* box or with a point.                                                    *)
(***************************************************************************)
Classify(r, q) ==
    /\ region = r /\ op = "FVoreealRegion(int32 x6)" /\ args = Fields(r)
    /\ before = r /\ prevGrow = <<>> /\ ncalls = 0
    /\ ub = FALSE /\ ubBefore = FALSE
    /\ query = "None" /\ qargs = q
    /\ containment = "None" /\ flag = FALSE /\ pvOut = NoRegion

InitClassify ==
    \/ \E r \in SmallRegions :
         \E q \in { Fields(b) : b \in SmallRegions } \cup Points : Classify(r, q)
    \/ \E r \in EdgeRegions :
         \E q \in { Fields(b) : b \in ClassifiedRegions } \cup ClassifiedPoints :
             Classify(r, q)
    \/ \E r \in SmallRegions :
         \E q \in { Fields(b) : b \in EdgeRegions } \cup EdgePoints : Classify(r, q)

DoContains ==
    /\ Len(qargs) = 6
    /\ query' = "Contains"
    /\ containment' = Contains(region, OfFields(qargs))
    /\ flag' = FALSE
    /\ UNCHANGED <<region, ub, op, args, before, ubBefore, prevGrow, ncalls,
                   qargs, pvOut>>

DoIntersect ==
    /\ Len(qargs) = 6
    /\ query' = "Intersect"
    /\ containment' = "None"
    /\ flag' = Intersect(region, OfFields(qargs))
    /\ UNCHANGED <<region, ub, op, args, before, ubBefore, prevGrow, ncalls,
                   qargs, pvOut>>

DoContainsPoint ==
    /\ Len(qargs) = 3
    /\ query' = "ContainsPoint"
    /\ containment' = "None"
    /\ flag' = ContainsPoint(region, qargs)
    /\ UNCHANGED <<region, ub, op, args, before, ubBefore, prevGrow, ncalls,
                   qargs, pvOut>>

NextClassify ==
    \/ DoContains
    \/ DoIntersect
    \/ DoContainsPoint

SpecClassify == InitClassify /\ [][NextClassify]_vars

(***************************************************************************)
(* Exact integer arithmetic for the statements below: what the claims say  *)
(* about origin + extent is said of the integers, not of int32.            *)
(***************************************************************************)
\* the integer a + b, written <<k, s>> with a + b = k * 2^32 + s and s an int32
MathSum(a, b) ==
    <<IF Fits(a, b) THEN 0 ELSE IF b >= 0 THEN 1 ELSE -1, Add32(a, b)>>

MathInt(a) == <<0, a>>

MathLe(m, n) == m[1] < n[1] \/ (m[1] = n[1] /\ m[2] <= n[2])

MathLt(m, n) == m[1] < n[1] \/ (m[1] = n[1] /\ m[2] < n[2])

Abs(a) == IF a < 0 THEN -a ELSE a

\* origin + extent stays in int32 on every axis
UpperFits(r) == Fits(r.X, r.Width) /\ Fits(r.Y, r.Height) /\ Fits(r.Z, r.Depth)

\* both corners of r lie strictly within +-2^24 on every axis, where every
\* integer is a float and so is its predecessor
ExactCorners(r) ==
    /\ UpperFits(r)
    /\ \A v \in { r.X, r.Y, r.Z, r.X + r.Width, r.Y + r.Height, r.Z + r.Depth } :
         v # MinInt32 /\ Abs(v) < TwoTo24

NonNegativeExtent(r) == r.Width >= 0 /\ r.Height >= 0 /\ r.Depth >= 0

PositiveExtent(r) == r.Width > 0 /\ r.Height > 0 /\ r.Depth > 0

(***************************************************************************)
(* C1.  A Region constructed from a size vector alone has origin (0,0,0)   *)
(* and extent Size: Width = Size.X, Height = Size.Y, Depth = Size.Z.       *)
(* The constructor passes (ZeroVector, Size) to the two-corner constructor,*)
(* which stores Lower - Upper: the extent is -Size.                        *)
(***************************************************************************)
C1_ExtentIsSize ==
    op = "FVoreealRegion(FVector Size)" =>
        region = Region(0, 0, 0, args[1], args[2], args[3])

FromPolyVox == op \in { "operator=", "FVoreealRegion(PolyVox::Region)" }

(***************************************************************************)
(* C2.  Assigning a well-formed PolyVox::Region (upper >= lower) to a      *)
(* Region and converting the Region back gives a PolyVox::Region with the  *)
(* same lower corner and the same width, height and depth in voxels.       *)
(* The assignment stores the size in voxels, upper - lower + 1, and the    *)
(* conversion uses origin + extent as the inclusive upper corner: the box  *)
(* comes back one voxel larger on every axis.                              *)
(***************************************************************************)
C2_PolyVoxRoundTrip ==
    (FromPolyVox /\ query = "operator PolyVox::Region") =>
        /\ getLowerX(pvOut) = getLowerX(args)
        /\ getLowerY(pvOut) = getLowerY(args)
        /\ getLowerZ(pvOut) = getLowerZ(args)
        /\ getWidthInVoxels(pvOut) = getWidthInVoxels(args)
        /\ getHeightInVoxels(pvOut) = getHeightInVoxels(args)
        /\ getDepthInVoxels(pvOut) = getDepthInVoxels(args)

(***************************************************************************)
(* Classification: the box compared with region, and the two boxes' exact  *)
(* corners on axis i (1 = X, 2 = Y, 3 = Z).                                *)
(***************************************************************************)
Other == OfFields(qargs)

Origin(r, i) == Fields(r)[i]
Extent(r, i) == Fields(r)[i + 3]
Axes == 1 .. 3

(***************************************************************************)
(* C3 as stated.  For every Region A with non-negative extent on all three *)
(* axes, Contains(A, A) returns Contains and Intersect(A, A) returns false. *)
(* It fails for a box whose origin + extent leaves int32: the upper corner *)
(* wraps below the lower corner and the box is Disjoint from itself.       *)
(***************************************************************************)
C3_SelfContainment_AnyOrigin ==
    (qargs = Fields(region) /\ NonNegativeExtent(region)) =>
        /\ query = "Contains" => containment = "Contains"
        /\ query = "Intersect" => flag = FALSE

(***************************************************************************)
(* C3, amended.  For every Region A with non-negative extent on all three  *)
(* axes whose upper corner origin + extent is an int32 on every axis,      *)
(* Contains(A, A) returns Contains and Intersect(A, A) returns false.      *)
(***************************************************************************)
C3_SelfContainment ==
    (qargs = Fields(region) /\ NonNegativeExtent(region) /\ UpperFits(region)) =>
        /\ query = "Contains" => containment = "Contains"
        /\ query = "Intersect" => flag = FALSE

C3_Witness ==
    /\ query = "Contains"
    /\ qargs = Fields(region)
    /\ PositiveExtent(region) /\ UpperFits(region)
    /\ region.Width >= TwoTo24
    /\ containment = "Contains"

Overlap(a, b, i) ==
    /\ MathLe(MathInt(Origin(b, i)), MathSum(Origin(a, i), Extent(a, i)))
    /\ MathLe(MathInt(Origin(a, i)), MathSum(Origin(b, i), Extent(b, i)))

FaceTouching(a, b) ==
    /\ PositiveExtent(a) /\ PositiveExtent(b)
    /\ \E i \in Axes :
         /\ MathInt(Origin(b, i)) = MathSum(Origin(a, i), Extent(a, i))
         /\ \A j \in Axes \ {i} : Overlap(a, b, j)

(***************************************************************************)
(* C4 as stated.  Two boxes A and B with strictly positive extents that    *)
(* touch face to face (on one axis B's lower coordinate is A's origin +    *)
(* extent; on the other two axes the ranges [lower, upper] overlap) are    *)
(* Intersects: Contains(A, B) = Intersects.                                *)
(* It fails where B's upper corner, as a float, rounds down onto A's: B is *)
(* then classified Contains.                                               *)
(***************************************************************************)
C4_FaceTouching_AnyMagnitude ==
    (query = "Contains" /\ FaceTouching(region, Other)) =>
        containment = "Intersects"

(***************************************************************************)
(* C4, amended.  Two face-touching boxes A and B with strictly positive    *)
(* extents, all of whose corner coordinates lie strictly within +-2^24     *)
(* (where single-precision floats are exact), are Intersects.              *)
(***************************************************************************)
C4_FaceTouching ==
    (/\ query = "Contains"
     /\ FaceTouching(region, Other)
     /\ ExactCorners(region) /\ ExactCorners(Other)) =>
        containment = "Intersects"

C4_Witness ==
    /\ query = "Contains"
    /\ region = Region(0, 0, 0, 1, 1, 1)
    /\ Other = Region(1, 0, 0, 1, 1, 1)
    /\ containment = "Intersects"

WithinExact(a, b) ==
    \A i \in Axes :
        /\ Origin(b, i) >= Origin(a, i)
        /\ MathLe(MathSum(Origin(b, i), Extent(b, i)),
                  MathSum(Origin(a, i), Extent(a, i)))

(***************************************************************************)
(* C5 as stated.  For every pair of Regions A and B, whatever their field  *)
(* values, Contains(A, B) returns Contains if and only if on every axis    *)
(* lower(B) >= lower(A) and upper(B) <= upper(A), with lower = origin and  *)
(* upper = origin + extent.                                                *)
(* It fails for a box B of negative extent that lies below A: the corner   *)
(* inequalities hold and the Disjoint test, made first, wins.              *)
(***************************************************************************)
C5_ContainsIffWithin_AnyBox ==
    query = "Contains" =>
        (containment = "Contains" <=> WithinExact(region, Other))

WellFormed(b) == \A i \in Axes : GetUpper(b)[i] >= GetLower(b)[i]

Within(a, b) ==
    \A i \in Axes :
        /\ GetLower(b)[i] >= GetLower(a)[i]
        /\ GetUpper(b)[i] <= GetUpper(a)[i]

(***************************************************************************)
(* C5, amended.  For every pair of Regions A and B where B's upper corner  *)
(* is not below its lower corner on any axis, Contains(A, B) returns       *)
(* Contains if and only if on every axis lower(B) >= lower(A) and          *)
(* upper(B) <= upper(A), the corners being the values GetLower() and       *)
(* GetUpper() return (origin and origin + extent in int32, as floats).     *)
(***************************************************************************)
C5_ContainsIffWithin ==
    (query = "Contains" /\ WellFormed(Other)) =>
        (containment = "Contains" <=> Within(region, Other))

C5_Witness ==
    /\ query = "Contains"
    /\ PositiveExtent(Other)
    /\ Other # region
    /\ Other.X > region.X
    /\ containment = "Contains"

InsideExact(r, p) ==
    \A i \in Axes :
        /\ Origin(r, i) <= p[i]
        /\ MathLt(MathInt(p[i]), MathSum(Origin(r, i), Extent(r, i)))

(***************************************************************************)
(* C6 as stated.  For every Region R and every integer point p,            *)
(* Contains(R, p) is true if and only if on every axis                     *)
(* origin <= p <= origin + extent - 1.                                     *)
(* It fails where Upper - 1 is not a float: for the box of width 2^24 + 4  *)
(* at the origin, Upper.X - 1 rounds back to Upper.X and the point on the  *)
(* upper face is contained.                                                *)
(***************************************************************************)
C6_PointHalfOpen_AnyMagnitude ==
    query = "ContainsPoint" => (flag <=> InsideExact(region, qargs))

(***************************************************************************)
(* C6, amended.  For every Region R whose corner coordinates lie strictly  *)
(* within +-2^24 and every integer point p, Contains(R, p) is true if and  *)
(* only if on every axis origin <= p <= origin + extent - 1.               *)
(***************************************************************************)
C6_PointHalfOpen ==
    (query = "ContainsPoint" /\ ExactCorners(region)) =>
        (flag <=> InsideExact(region, qargs))

C6_Witness ==
    /\ query = "ContainsPoint"
    /\ region = Region(0, 0, 0, 1, 1, 1)
    /\ qargs = <<0, 0, 0>>
    /\ flag = TRUE

(***************************************************************************)
(* C10.  Disjoint is symmetric: for every pair of Regions A and B,         *)
(* whatever their field values, Contains(A, B) = Disjoint if and only if   *)
(* Contains(B, A) = Disjoint.                                              *)
(***************************************************************************)
C10_DisjointSymmetric ==
    query = "Contains" =>
        (containment = "Disjoint" <=> Contains(Other, region) = "Disjoint")

C10_Witness ==
    /\ query = "Contains"
    /\ containment = "Disjoint"
    /\ Other # region
    /\ PositiveExtent(region) /\ PositiveExtent(Other)

UndoneGrowUnified ==
    /\ op = "GrowUnified"
    /\ Len(prevGrow) = 2
    /\ args[1] = Neg32(prevGrow[1])

(***************************************************************************)
(* C7.  GrowUnified is undone by its negation: GrowUnified(n) followed by  *)
(* GrowUnified(-n) leaves all six fields as they were before the first     *)
(* call, for every int32 n, also where the intermediate values wrap.       *)
(***************************************************************************)
C7_GrowUnifiedUndone == UndoneGrowUnified => region = prevGrow[2]

\* the first call wrapped the origin and the extent
C7_Witness ==
    /\ UndoneGrowUnified
    /\ prevGrow[1] \in { TwoTo30, -TwoTo30, MaxInt32, -MaxInt32 }
    /\ ~Fits(prevGrow[2].X, Neg32(prevGrow[1]))
    /\ region = prevGrow[2]

(***************************************************************************)
(* C8.  Frame conditions of the shift mutators, in any sequence of calls:  *)
(* ShiftUpperCorner(dx, dy, dz) adds (dx, dy, dz) to the origin and leaves *)
(* the upper corner origin + extent unchanged on every axis;               *)
(* ShiftLowerCorner(dx, dy, dz) adds (dx, dy, dz) to the extent and leaves *)
(* the origin unchanged.  Sums are int32 sums.                             *)
(***************************************************************************)
C8_ShiftFrames ==
    /\ op = "ShiftUpperCorner" =>
         /\ GetLowerInt(region) =
              <<Add32(before.X, args[1]), Add32(before.Y, args[2]),
                Add32(before.Z, args[3])>>
         /\ GetUpperInt(region) = GetUpperInt(before)
    /\ op = "ShiftLowerCorner" =>
         /\ <<region.Width, region.Height, region.Depth>> =
              <<Add32(before.Width, args[1]), Add32(before.Height, args[2]),
                Add32(before.Depth, args[3])>>
         /\ GetLowerInt(region) = GetLowerInt(before)

\* the second of two calls, with the upper corner held while the origin moves
C8_Witness ==
    /\ op = "ShiftUpperCorner"
    /\ ncalls = 2
    /\ args = <<1, 2, 3>>
    /\ GetLowerInt(region) # GetLowerInt(before)
    /\ GetUpperInt(region) = GetUpperInt(before)

\* the same center returned, by two calls that each return one
SameCenter(c0, c1) == c0 # Undefined /\ c1 # Undefined /\ c0 = c1

(***************************************************************************)
(* C9 as stated.  Grow expands about the center: for every Region and all  *)
(* dx, dy, dz of either sign, GetCenter() after Grow(dx, dy, dz) equals    *)
(* GetCenter() before it.                                                  *)
(* It fails for an odd extent whose sign changes (extent 1, d = -1: the    *)
(* center moves from origin to origin + 1, as 1 / 2 and -1 / 2 are both 0) *)
(* and where a sum overflows int32.                                        *)
(***************************************************************************)
C9_GrowKeepsCenter_Always ==
    op = "Grow" =>
        \A c1 \in GetCenter(region, ub), c0 \in GetCenter(before, ubBefore) :
            SameCenter(c0, c1)

\* extent e and amount d on one axis: extent + 2d the same side of zero as
\* the extent, or the extent even
HalvesAlike(e, d) ==
    /\ Fits(d, d) /\ Fits(e, d + d)
    /\ \/ e % 2 = 0
       \/ e > 0 /\ e + (d + d) > 0
       \/ e < 0 /\ e + (d + d) < 0

\* no int32 sum has overflowed: none that made the object, none in the
\* call, none in GetCenter() before or after the call
NoOverflow ==
    /\ ~ub
    /\ ~GetCenterOverflows(before)
    /\ ~GetCenterOverflows(region)

(***************************************************************************)
(* C9, amended.  GetCenter() after Grow(dx, dy, dz) equals GetCenter()     *)
(* before it whenever no int32 sum overflows (none that made the object,   *)
(* none in Grow: origin - d, 2d, extent + 2d, and none in GetCenter():     *)
(* origin + extent / 2) and, on every axis, the extent is even or keeps    *)
(* its sign (extent and extent + 2d both positive or both negative).       *)
(***************************************************************************)
C9_GrowKeepsCenter ==
    (/\ op = "Grow"
     /\ NoOverflow
     /\ HalvesAlike(before.Width, args[1])
     /\ HalvesAlike(before.Height, args[2])
     /\ HalvesAlike(before.Depth, args[3])) =>
        \A c1 \in GetCenter(region, ub), c0 \in GetCenter(before, ubBefore) :
            SameCenter(c0, c1)

\* an odd extent that keeps its sign, and a box that really grew
C9_Witness ==
    /\ op = "Grow"
    /\ NoOverflow
    /\ HalvesAlike(before.Width, args[1])
    /\ HalvesAlike(before.Height, args[2])
    /\ HalvesAlike(before.Depth, args[3])
    /\ before.Width % 2 = 1
    /\ args[1] # 0 /\ args[2] # 0 /\ args[3] # 0
    /\ region # before
    /\ GetCenter(region, ub) = GetCenter(before, ubBefore)
    /\ Undefined \notin GetCenter(region, ub)

====
